---------------------------- MODULE Spec2Model ----------------------------
(***************************************************************************)
(* A model of src/src/codebase_extractor.py: the configuration loader,    *)
(* the directory scanner, the codemap writer, the file collector, the     *)
(* library reporter and the interactive orchestrator (main).              *)
(*                                                                         *)
(* Text is a sequence of units.  A unit is a one-element string standing  *)
(* for a character ("a", ".", "/", "-", "*", " ") or for an unbroken run  *)
(* of ordinary characters ("py", "os", "import").  "CR" and "LF" are the  *)
(* two newline characters and "BAD" is a byte that is not valid UTF-8.    *)
(* Paths follow the POSIX rules of os.path (separator "/").               *)
(***************************************************************************)
EXTENDS Integers, Sequences, FiniteSets, TLC

VARIABLES
    tree,           \* the scanned directory: its files [path, text]
    unreadable,     \* paths of source files whose open() raises PermissionError
    unwritable,     \* destination names that cannot be created or written
    cfgFile,        \* config.json
    rulesFile,      \* ignored_patterns.txt
    libEnv,         \* what the interpreter knows of each library name
    clock,          \* datetime.now(), in whole seconds
    pc,             \* position of the running operation
    runs,           \* runs of main started so far
    config,         \* the config dict
    given,          \* the dict a caller hands to save_config
    saved,          \* whether the last save_config wrote the file
    selected_directory,
    output_directory,
    all_file_types,
    all_libraries,
    file_types_input,
    libraries_input,
    file_types,
    libraries,
    timestamp,
    attempts,       \* calls of get_library_info made by the run
    copied,         \* the copies copy_files made, in order: [src, dst]
    codemaps,       \* output: codemap files [path, text]
    copies,         \* output: flattened copies [path, text]
    reports,        \* output: library report files [path, text]
    raised          \* the exception that ended the operation, if any

env == <<tree, unreadable, unwritable, rulesFile, libEnv>>
locals == <<selected_directory, output_directory, all_file_types, all_libraries,
            file_types_input, libraries_input, file_types, libraries, timestamp,
            attempts, copied>>
outputs == <<codemaps, copies, reports>>
vars == <<env, cfgFile, clock, pc, runs, config, given, saved, locals, outputs, raised>>

-----------------------------------------------------------------------------
(* Bounds of the model.                                                    *)

\* runs of main in one behaviour
MaxRuns == 2
\* seconds the clock may advance
MaxClock == 1
\* largest index (in absolute value) typed at a selection prompt
MaxIndex == 3

-----------------------------------------------------------------------------
(* Strings.                                                                *)

SEP == "/"
CR == "CR"
LF == "LF"
BAD == "BAD"

StartsWith(s, prefix) ==
    /\ Len(s) >= Len(prefix)
    /\ SubSeq(s, 1, Len(prefix)) = prefix

EndsWith(s, suffix) ==
    /\ Len(s) >= Len(suffix)
    /\ SubSeq(s, Len(s) - Len(suffix) + 1, Len(s)) = suffix

IsSpace(c) == c \in {" ", CR, LF}

RECURSIVE LStrip(_)
LStrip(s) ==
    IF s # <<>> /\ IsSpace(Head(s)) THEN LStrip(Tail(s)) ELSE s

RECURSIVE RStrip(_)
RStrip(s) ==
    IF s # <<>> /\ IsSpace(s[Len(s)]) THEN RStrip(SubSeq(s, 1, Len(s) - 1)) ELSE s

\* str.strip()
Strip(s) == RStrip(LStrip(s))

RECURSIVE Replace(_, _, _)
\* str.replace(old, new) for a one-character old
Replace(s, old, new) ==
    IF s = <<>> THEN <<>>
    ELSE (IF Head(s) = old THEN new ELSE <<Head(s)>>) \o Replace(Tail(s), old, new)

RECURSIVE Split(_, _)
\* str.split(sep) for a one-character sep: the segments between separators
Split(s, sep) ==
    IF \A i \in 1..Len(s) : s[i] # sep THEN <<s>>
    ELSE LET i == CHOOSE k \in 1..Len(s) :
                      s[k] = sep /\ \A j \in 1..(k - 1) : s[j] # sep
         IN <<SubSeq(s, 1, i - 1)>> \o Split(SubSeq(s, i + 1, Len(s)), sep)

\* the order of the units that occur in names, as sorted() orders the text
\* they stand for (by code point)
Ord(c) ==
    CASE c = " " -> 32 [] c = "#" -> 35 [] c = "*" -> 42 [] c = "-" -> 45
      [] c = "." -> 46 [] c = "/" -> 47 [] c = "a" -> 97 [] c = "b" -> 98
      [] c = "c" -> 99 [] c = "md" -> 109 [] c = "os" -> 111 [] c = "p" -> 112
      [] c = "py" -> 113 [] c = "q" -> 114 [] c = "re" -> 115 [] c = "s" -> 116
      [] c = "t" -> 117 [] OTHER -> 120

RECURSIVE StrLess(_, _)
\* s < t for two str
StrLess(s, t) ==
    IF t = <<>> THEN FALSE
    ELSE IF s = <<>> THEN TRUE
    ELSE IF Head(s) # Head(t) THEN Ord(Head(s)) < Ord(Head(t))
    ELSE StrLess(Tail(s), Tail(t))

RECURSIVE Sorted(_)
\* sorted(S) for a set of str
Sorted(S) ==
    IF S = {} THEN <<>>
    ELSE LET m == CHOOSE x \in S : \A y \in S \ {x} : StrLess(x, y)
         IN <<m>> \o Sorted(S \ {m})

Range(f) == {f[i] : i \in DOMAIN f}

\* every order in which the elements of a set may be listed
Orders(S) ==
    {f \in [1..Cardinality(S) -> S] : \A i, j \in DOMAIN f : f[i] = f[j] => i = j}

RECURSIVE fnmatch(_, _)
\* fnmatch.fnmatch(name, pat) on POSIX: "*" matches any run of characters
\* ("/" included), "?" matches one character, anything else matches itself,
\* and the whole name must match
fnmatch(name, pat) ==
    IF pat = <<>> THEN name = <<>>
    ELSE IF Head(pat) = "*"
         THEN \/ fnmatch(name, Tail(pat))
              \/ name # <<>> /\ fnmatch(Tail(name), pat)
    ELSE IF Head(pat) = "?"
         THEN name # <<>> /\ fnmatch(Tail(name), Tail(pat))
    ELSE name # <<>> /\ Head(name) = Head(pat) /\ fnmatch(Tail(name), Tail(pat))

\* os.path.join(a, b) for a relative b
join(a, b) ==
    IF a = <<>> \/ a[Len(a)] = SEP THEN a \o b ELSE a \o <<SEP>> \o b

\* os.path.basename(p)
basename(p) == LET parts == Split(p, SEP) IN parts[Len(parts)]

\* os.path.splitext(name)[1] for a name without "/": the part from the last
\* dot on, empty when the name has no dot or only leading dots
splitext(name) ==
    LET dots == {i \in 1..Len(name) : name[i] = "."}
    IN IF dots = {} THEN <<>>
       ELSE LET last == CHOOSE i \in dots : \A j \in dots : j <= i
            IN IF \A j \in 1..last : name[j] = "." THEN <<>>
               ELSE SubSeq(name, last, Len(name))

-----------------------------------------------------------------------------
(* Configuration: load_config and save_config.                             *)
(*                                                                         *)
(* A JSON value is a record tagged by t: "missing" (no such key), "null",  *)
(* "num", "str" (s: its text), "list" (items) or "obj" (f: the values of  *)
(* the four keys the program reads).  config.json is absent, empty (only   *)
(* white space), malformed (json.loads raises JSONDecodeError) or holds a  *)
(* JSON value.                                                             *)

JMissing == [t |-> "missing"]
JNull == [t |-> "null"]
JNum(n) == [t |-> "num", n |-> n]
JStr(s) == [t |-> "str", s |-> s]
JList(items) == [t |-> "list", items |-> items]
JObj(ld, lod, exts, folders) ==
    [t |-> "obj",
     f |-> [last_directory |-> ld, last_output_directory |-> lod,
            ignored_extensions |-> exts, ignored_folders |-> folders]]

Absent == [kind |-> "absent", val |-> JNull]
Empty == [kind |-> "empty", val |-> JNull]
Malformed == [kind |-> "malformed", val |-> JNull]
Json(v) == [kind |-> "json", val |-> v]

NoRules == [present |-> FALSE, lines |-> <<>>]
Rules(lines) == [present |-> TRUE, lines |-> lines]

\* hashable(v): whether v may be an element of a Python set
Hashable(v) == v.t \in {"null", "num", "str"}

\* set(v) raises TypeError: v is not iterable or holds an unhashable element
SetRaises(v) ==
    \/ v.t \in {"null", "num"}
    \/ v.t = "list" /\ \E i \in DOMAIN v.items : ~Hashable(v.items[i])

\* set(v): the elements of a list, the characters of a str, the keys of a dict
SetOf(v) ==
    CASE v.t = "missing" -> {}
      [] v.t = "list" -> Range(v.items)
      [] v.t = "str" -> {JStr(<<v.s[i]>>) : i \in DOMAIN v.s}
      [] v.t = "obj" -> {JStr(<<k>>) : k \in {"last_directory", "last_output_directory",
                                               "ignored_extensions", "ignored_folders"}}
      [] OTHER -> {}

\* the dict main works on: the two directories as read (or missing) and the
\* two sets
Config(ld, lod, exts, folders) ==
    [last_directory |-> ld, last_output_directory |-> lod,
     ignored_extensions |-> exts, ignored_folders |-> folders]

NoConfig == Config(JMissing, JMissing, {}, {})

\* lines 57-63: the patterns of ignored_patterns.txt, stripped, without blank
\* lines and comments
RulePatterns(rules) ==
    IF ~rules.present THEN {}
    ELSE {Strip(rules.lines[i]) : i \in {j \in DOMAIN rules.lines :
              /\ Strip(rules.lines[j]) # <<>>
              /\ ~StartsWith(Strip(rules.lines[j]), <<"#">>)}}

RuleExtensions(rules) ==
    {JStr(l) : l \in {x \in RulePatterns(rules) : StartsWith(x, <<".">>)}}

RuleFolders(rules) ==
    {JStr(l) : l \in {x \in RulePatterns(rules) : ~StartsWith(x, <<".">>)}}

\* lines 38-50: the value json.loads returned, {} when the file is absent,
\* empty or malformed
Parsed(file) ==
    IF file.kind = "json" THEN file.val
    ELSE JObj(JMissing, JMissing, JMissing, JMissing)

\* lines 66-67 raise: config is no dict (AttributeError on .get, TypeError on
\* item assignment) or set() rejects a value
LoadRaises(file) ==
    LET c == Parsed(file)
    IN \/ c.t # "obj"
       \/ SetRaises(c.f.ignored_extensions)
       \/ SetRaises(c.f.ignored_folders)

\* a load in which the ignore-rules file, when present, replaces the stored sets
load_config_replacing(file, rules) ==
    IF LoadRaises(file) THEN [ok |-> FALSE, config |-> NoConfig]
    ELSE LET c == Parsed(file).f
         IN [ok |-> TRUE,
             config |-> Config(c.last_directory, c.last_output_directory,
                               IF rules.present THEN RuleExtensions(rules)
                               ELSE SetOf(c.ignored_extensions),
                               IF rules.present THEN RuleFolders(rules)
                               ELSE SetOf(c.ignored_folders))]

\* load_config(): [ok, config]; ok is FALSE when an exception leaves it
load_config(file, rules) ==
    IF LoadRaises(file) THEN [ok |-> FALSE, config |-> NoConfig]
    ELSE LET c == Parsed(file).f
         IN [ok |-> TRUE,
             config |-> Config(c.last_directory, c.last_output_directory,
                               SetOf(c.ignored_extensions) \cup RuleExtensions(rules),
                               SetOf(c.ignored_folders) \cup RuleFolders(rules))]

\* lines 71-74: every way the dict may be serialised, a set as a list of its
\* elements in some order
Serializable(c) ==
    {JObj(c.last_directory, c.last_output_directory, JList(e), JList(f)) :
        e \in Orders(c.ignored_extensions), f \in Orders(c.ignored_folders)}

\* save_config(c): the files it may leave. fault "none": written; "open":
\* open() raised and the file is as before; "write": the file was truncated
\* and the write raised, leaving no or partial text
save_config(c, file, fault) ==
    CASE fault = "none" -> {Json(v) : v \in Serializable(c)}
      [] fault = "open" -> {file}
      [] OTHER -> {Empty, Malformed}

SaveFaults == {"none", "open", "write"}

-----------------------------------------------------------------------------
(* The scanned directory.                                                  *)
(*                                                                         *)
(* A tree is a set of files [path, text]: path is the sequence of names    *)
(* from the scanned directory down to the file, text the file's content.   *)
(* The directories of the tree are the proper prefixes of its paths.       *)

File(path, text) == [path |-> path, text |-> text]

Paths(tr) == {f.path : f \in tr}

TextAt(tr, path) == (CHOOSE f \in tr : f.path = path).text

IsPrefix(d, path) == Len(d) <= Len(path) /\ SubSeq(path, 1, Len(d)) = d

\* the directories under the top: every proper, non-empty prefix of a path
DirsOf(tr) ==
    UNION {{SubSeq(p, 1, k) : k \in 1..(Len(p) - 1)} : p \in Paths(tr)}

\* os.path.isdir(path) for a path below the top
IsDir(tr, path) == path \in DirsOf(tr)

\* os.listdir(directory): the names directly under a directory of the tree
Children(tr, d) ==
    {p[Len(d) + 1] : p \in {q \in Paths(tr) : IsPrefix(d, q) /\ Len(q) > Len(d)}}

RECURSIVE PathStr(_, _)
\* os.path.join(top, name1, name2, ...)
PathStr(top, path) ==
    IF path = <<>> THEN top
    ELSE PathStr(join(top, Head(path)), Tail(path))

\* the file name of a path and its extension
NameOf(path) == path[Len(path)]
ExtOf(path) == splitext(NameOf(path))

\* any(fnmatch.fnmatch(p, pattern) for pattern in ignored_folders)
MatchesAny(p, ignored_folders) ==
    \E pattern \in ignored_folders : fnmatch(p, pattern.s)

\* lines 84 and 127: os.walk with dirs[:] pruned visits a file when no
\* directory above it matches a pattern
Walked(top, tr, ignored_folders) ==
    {p \in Paths(tr) :
        \A k \in 1..(Len(p) - 1) :
            ~MatchesAny(PathStr(top, SubSeq(p, 1, k)), ignored_folders)}

\* os.walk(top) is top-down: the files of a directory come before those of
\* its subdirectories and each subtree is walked in one piece; the order
\* inside a directory is the file system's
WalkOrders(S) ==
    {o \in Orders(S) :
        \A i, j \in DOMAIN o :
            i < j =>
                /\ \A n \in 0..(Len(o[i]) - 1) :
                       IsPrefix(SubSeq(o[i], 1, n), o[j]) =>
                           \A k \in i..j : IsPrefix(SubSeq(o[i], 1, n), o[k])
                /\ ~(/\ Len(o[i]) > Len(o[j])
                     /\ IsPrefix(SubSeq(o[j], 1, Len(o[j]) - 1), o[i]))}

\* get_file_types(directory, ignored_extensions, ignored_folders)
get_file_types(top, tr, ignored_extensions, ignored_folders) ==
    Sorted({ExtOf(p) : p \in {q \in Walked(top, tr, ignored_folders) :
                /\ ExtOf(q) # <<>>
                /\ JStr(ExtOf(q)) \notin ignored_extensions}})

-----------------------------------------------------------------------------
(* File content: reading and writing in text mode.                         *)

Decodable(text) == \A i \in DOMAIN text : text[i] # BAD

RECURSIVE Translate(_)
\* open(path, 'r') reads with universal newlines: "\r\n" and "\r" become "\n"
Translate(text) ==
    IF text = <<>> THEN <<>>
    ELSE IF Head(text) = CR
         THEN IF Len(text) >= 2 /\ text[2] = LF
              THEN <<LF>> \o Translate(Tail(Tail(text)))
              ELSE <<LF>> \o Translate(Tail(text))
    ELSE <<Head(text)>> \o Translate(Tail(text))

\* os.linesep
linesep == <<LF>>

\* open(path, 'w') writes each "\n" as os.linesep
WriteText(text) == Replace(text, LF, linesep)

\* line 141: the header line for the time of the copy
Header(now) == <<"# file updated ", ToString(now), LF>>

-----------------------------------------------------------------------------
(* get_imported_libraries.                                                 *)

RECURSIVE Words(_)
\* str.split(): the words between runs of white space
Words(line) ==
    LET s == LStrip(line)
    IN IF s = <<>> THEN <<>>
       ELSE LET n == IF \E i \in DOMAIN s : IsSpace(s[i])
                     THEN (CHOOSE i \in DOMAIN s :
                               IsSpace(s[i]) /\ \A j \in 1..(i - 1) : ~IsSpace(s[j])) - 1
                     ELSE Len(s)
            IN <<SubSeq(s, 1, n)>> \o Words(SubSeq(s, n + 1, Len(s)))

IsImportLine(line) ==
    StartsWith(line, <<"import", " ">>) \/ StartsWith(line, <<"from", " ">>)

RECURSIVE ScanLines(_)
\* lines 99-107: the names the lines of one file add; an import line with no
\* second word raises IndexError, which ends the scan of the file
ScanLines(lines) ==
    IF lines = <<>> THEN {}
    ELSE IF IsImportLine(Head(lines))
         THEN LET parts == Words(Head(lines))
              IN IF Len(parts) < 2 THEN {}
                 ELSE {Split(parts[2], ".")[1]} \cup ScanLines(Tail(lines))
    ELSE ScanLines(Tail(lines))

\* the names one .py file adds: none when it does not decode (the file is
\* decoded in one piece, being shorter than the read buffer)
ScanFile(text) ==
    IF Decodable(text) THEN ScanLines(Split(Translate(text), LF)) ELSE {}

\* line 95
IsPy(path) == EndsWith(NameOf(path), <<".", "py">>)

\* line 97 raises: open() of a .py file fails, outside the try
ScanRaises(tr, noread) == \E p \in Paths(tr) : IsPy(p) /\ p \in noread

\* get_imported_libraries(directory)
get_imported_libraries(tr) ==
    Sorted(UNION {ScanFile(TextAt(tr, p)) : p \in {q \in Paths(tr) : IsPy(q)}})

-----------------------------------------------------------------------------
(* write_codemap.                                                          *)

\* lines 116-123: one line of the codemap, f"{indent}{item}\n" with
\* indent = one guide per indent_level, then the branch marker
Line(level, item) == [indent |-> level, text |-> item]

RECURSIVE write_codemap(_, _, _, _, _, _)
RECURSIVE WriteItems(_, _, _, _, _, _, _)
\* write_codemap(file, directory, indent_level, ignored_extensions,
\* ignored_folders): the lines written for the directory d below the top
write_codemap(top, tr, d, level, ignored_extensions, ignored_folders) ==
    WriteItems(top, tr, d, Sorted(Children(tr, d)), level,
               ignored_extensions, ignored_folders)

\* the loop of lines 112-123 over the sorted items
WriteItems(top, tr, d, items, level, ignored_extensions, ignored_folders) ==
    IF items = <<>> THEN <<>>
    ELSE LET item == Head(items)
             path == d \o <<item>>
             rest == WriteItems(top, tr, d, Tail(items), level,
                                ignored_extensions, ignored_folders)
         IN IF MatchesAny(PathStr(top, path), ignored_folders) THEN rest
            ELSE IF IsDir(tr, path)
                 THEN <<Line(level, item \o <<SEP>>)>>
                      \o write_codemap(top, tr, path, level + 1,
                                       ignored_extensions, ignored_folders)
                      \o rest
            ELSE IF JStr(splitext(item)) \notin ignored_extensions
                 THEN <<Line(level, item)>> \o rest
            ELSE rest

-----------------------------------------------------------------------------
(* copy_files.                                                             *)

\* a set of written files [path, text], at most one per path
Put(files, path, text) ==
    {f \in files : f.path # path} \cup {File(path, text)}

\* line 133: os.path.relpath(s, base_directory)
RelPath(path) == PathStr(<<>>, path)

\* a flattening that keeps only the file's name
FlattenToName(rel) == Split(rel, SEP)[Len(Split(rel, SEP))]

\* line 134: relative_path.replace(os.path.sep, '-')
Flatten(rel) == Replace(rel, SEP, <<"-">>)

\* line 130: the files the loop does not skip
Eligible(path, types, ignored_extensions) ==
    ~(\/ JStr(ExtOf(path)) \in ignored_extensions
      \/ ExtOf(path) \notin Range(types))

\* lines 132-146 for one file.  a: the arguments and the environment of the
\* call; st: [files, log, raised] so far.  The log lists each copy made.
CopyOne(a, st, path) ==
    LET text == TextAt(a.tr, path)
        name == Flatten(RelPath(path))
        d == join(a.dest, name)
        done(t) == [files |-> Put(st.files, d, t),
                    log |-> Append(st.log, [src |-> path, dst |-> d]),
                    raised |-> FALSE]
    IN IF path \in a.noread THEN st                     \* except Exception
       ELSE IF Decodable(text)
            THEN IF name \in a.nowrite THEN st          \* except Exception
                 ELSE done(WriteText(Header(a.now) \o Translate(text)))
       ELSE IF name \in a.nowrite                       \* shutil.copy2 raises
            THEN [st EXCEPT !.raised = TRUE]
       ELSE done(text)

RECURSIVE CopySeq(_, _, _)
\* the loop of lines 126-146 over the walk, ended by the first exception
\* that leaves the loop
CopySeq(a, st, order) ==
    IF order = <<>> \/ st.raised THEN st
    ELSE CopySeq(a,
                 IF Eligible(Head(order), a.types, a.exts)
                 THEN CopyOne(a, st, Head(order)) ELSE st,
                 Tail(order))

\* copy_files(src, dest, base_directory, file_types, ignored_extensions,
\* ignored_folders) along one walk order, onto the files already written
copy_files(a, files, order) ==
    CopySeq(a, [files |-> files, log |-> <<>>, raised |-> FALSE], order)

\* the arguments and environment of one call of copy_files
CopyArgs(tr, dest, types, exts, noread, nowrite, now) ==
    [tr |-> tr, dest |-> dest, types |-> types, exts |-> exts,
     noread |-> noread, nowrite |-> nowrite, now |-> now]

-----------------------------------------------------------------------------
(* The library reporter.                                                   *)
(*                                                                         *)
(* libEnv[name] says what the interpreter finds for a library name:        *)
(*   dist: pkg_resources.get_distribution(name) returns ("found"), raises  *)
(*         DistributionNotFound ("notfound") or raises something else      *)
(*         ("error": the name is no requirement, as the empty name);       *)
(*   imp:  importlib.import_module(name) returns a module with __version__ *)
(*         ("version") or without ("plain"), raises ImportError            *)
(*         ("missing") or raises something else ("error");                 *)
(*   spec: importlib.util.find_spec(name) has an origin ("origin") or is   *)
(*         None or has none ("none").                                      *)
(* An exception of get_library_version that is neither of the two it       *)
(* catches is reported as "LibraryError".                                  *)

Facts(dist, imp, spec) == [dist |-> dist, imp |-> imp, spec |-> spec]

\* get_library_version(library): [ok, version]; ok is FALSE when an
\* exception other than the two caught ones leaves it
get_library_version(e, library) ==
    CASE e[library].dist = "found" -> [ok |-> TRUE, version |-> "1.0"]
      [] e[library].dist = "error" -> [ok |-> FALSE, version |-> ""]
      [] e[library].imp = "version" -> [ok |-> TRUE, version |-> "2.0"]
      [] e[library].imp = "error" -> [ok |-> FALSE, version |-> ""]
      [] OTHER -> [ok |-> TRUE, version |-> "Unknown"]

\* get_library_info(library_name) is not None
get_library_info(e, library_name) == e[library_name].spec = "origin"

\* lines 230-233: the library lines of the codemap, up to the first
\* get_library_version that raises
RECURSIVE LibraryLines(_, _)
LibraryLines(e, libs) ==
    IF libs = <<>> \/ ~get_library_version(e, Head(libs)).ok THEN <<>>
    ELSE <<[name |-> Head(libs), version |-> get_library_version(e, Head(libs)).version]>>
         \o LibraryLines(e, Tail(libs))

\* the codemap file: the lines of the tree, then "Included Libraries:" (when
\* the tree was written) and the library lines
Codemap(lines, listed, libs) == [lines |-> lines, listed |-> listed, libs |-> libs]

\* line 241: the name of a report file
ReportName(library, version, ts) ==
    library \o <<"(v", version, ")", ToString(ts), ".txt">>

\* lines 237-243 over the selected libraries: st is [files, attempts,
\* raised]; a get_library_version that raises ends the loop
RECURSIVE ReportSeq(_, _, _, _, _)
ReportSeq(e, dir, ts, st, libs) ==
    IF libs = <<>> \/ st.raised THEN st
    ELSE LET library == Head(libs)
             v == get_library_version(e, library)
             tried == [st EXCEPT !.attempts = @ + 1]
         IN ReportSeq(e, dir, ts,
                IF ~get_library_info(e, library) THEN tried
                ELSE IF ~v.ok THEN [tried EXCEPT !.raised = TRUE]
                ELSE [tried EXCEPT !.files =
                          Put(@, join(dir, ReportName(library, v.version, ts)),
                              <<[name |-> library, version |-> v.version]>>)],
                Tail(libs))

-----------------------------------------------------------------------------
(* The selection prompts of main.                                          *)
(*                                                                         *)
(* What the operator types is a sequence of comma-separated tokens; a      *)
(* token is an integer ([int |-> TRUE, n]) or a name ([int |-> FALSE, s]). *)
(* The empty sequence is the empty input.                                  *)

Int_(n) == [int |-> TRUE, n |-> n, s |-> <<>>]
Name(s) == [int |-> FALSE, n |-> 0, s |-> s]

\* the text of a token
TokText(tok) == IF tok.int THEN <<ToString(tok.n)>> ELSE tok.s

\* list[int(x) - 1] raises IndexError
IndexRaises(list, x) == x - 1 >= Len(list) \/ x - 1 < -Len(list)

\* list[int(x) - 1]: a negative index counts from the end of the list
PyIndex(list, x) ==
    IF x - 1 >= 0 THEN list[x] ELSE list[Len(list) + x]

\* [list[int(x.strip()) - 1] for x in input.split(',')]: [ok, err, list]
Pick(list, toks) ==
    IF \E i \in DOMAIN toks : ~toks[i].int
    THEN [ok |-> FALSE, err |-> "ValueError", list |-> <<>>]
    ELSE IF \E i \in DOMAIN toks : IndexRaises(list, toks[i].n)
    THEN [ok |-> FALSE, err |-> "IndexError", list |-> <<>>]
    ELSE [ok |-> TRUE, err |-> "none",
          list |-> [i \in DOMAIN toks |-> PyIndex(list, toks[i].n)]]

\* lines 200-203
SelectTypes(all, toks) ==
    IF toks # <<>> THEN Pick(all, toks)
    ELSE [ok |-> TRUE, err |-> "none", list |-> all]

\* libraries_input[0].isdigit(): the input starts with a digit
DigitFirst(toks) == toks[1].int /\ toks[1].n >= 0

\* lines 209-217
SelectLibs(all, toks) ==
    IF toks = <<Name(<<"all">>)>> THEN [ok |-> TRUE, err |-> "none", list |-> all]
    ELSE IF toks # <<>>
         THEN IF DigitFirst(toks) THEN Pick(all, toks)
              ELSE [ok |-> TRUE, err |-> "none",
                    list |-> [i \in DOMAIN toks |-> TokText(toks[i])]]
    ELSE [ok |-> TRUE, err |-> "none", list |-> <<>>]

-----------------------------------------------------------------------------
(* main.                                                                   *)

\* the two directories that exist; each holds the files of tree
P == <<"p">>
Q == <<"q">>
Exists(dir) == dir \in {P, Q}
TreeAt(dir) == IF Exists(dir) THEN tree ELSE {}

\* config.get(key, ''): the text of a stored directory
Get(v) == IF v.t = "str" THEN v.s ELSE <<>>

\* lines 220-222 and 227
top_level_dir == join(output_directory, basename(selected_directory))
codebase_dir == join(top_level_dir, <<"codebase-", ToString(timestamp)>>)
libraries_dir == join(top_level_dir, <<"Libraries">>)
codemap_file == join(codebase_dir, basename(selected_directory) \o <<"-codemap.txt">>)

NoLocals ==
    /\ selected_directory = <<>>
    /\ output_directory = <<>>
    /\ all_file_types = <<>>
    /\ all_libraries = <<>>
    /\ file_types_input = <<>>
    /\ libraries_input = <<>>
    /\ file_types = <<>>
    /\ libraries = <<>>
    /\ timestamp = 0
    /\ attempts = 0
    /\ copied = <<>>

\* no exception, and the exception err raised by the step at
NoError == [at |-> "none", err |-> "none"]
Error(at, err) == [at |-> at, err |-> err]

\* an exception leaves main
Fail(err) == pc' = "failed" /\ raised' = Error(pc, err)

\* line 184
MainLoad ==
    /\ pc = "idle"
    /\ runs' = runs + 1
    /\ LET r == load_config(cfgFile, rulesFile)
       IN IF r.ok THEN /\ config' = r.config
                       /\ pc' = "loaded"
                       /\ raised' = NoError
          ELSE Fail("TypeError") /\ UNCHANGED config
    /\ UNCHANGED <<env, cfgFile, clock, given, saved, locals, outputs>>

\* lines 188-189
MainPrompt(dirs, outs) ==
    /\ pc = "loaded"
    /\ \E din \in dirs, dout \in outs :
           /\ selected_directory' =
                  IF din # <<>> THEN din ELSE Get(config.last_directory)
           /\ output_directory' =
                  IF dout # <<>> THEN dout ELSE Get(config.last_output_directory)
    /\ pc' = "prompted"
    /\ UNCHANGED <<env, cfgFile, clock, runs, config, given, saved, outputs, raised,
                   all_file_types, all_libraries, file_types_input, libraries_input,
                   file_types, libraries, timestamp, attempts, copied>>

\* lines 193-194
MainScan ==
    /\ pc = "prompted"
    /\ IF ScanRaises(TreeAt(selected_directory), unreadable)
       THEN Fail("PermissionError") /\ UNCHANGED <<all_file_types, all_libraries>>
       ELSE /\ all_file_types' =
                   get_file_types(selected_directory, TreeAt(selected_directory),
                                  config.ignored_extensions, config.ignored_folders)
            /\ all_libraries' = get_imported_libraries(TreeAt(selected_directory))
            /\ pc' = "scanned"
            /\ UNCHANGED raised
    /\ UNCHANGED <<env, cfgFile, clock, runs, config, given, saved, outputs,
                   selected_directory, output_directory, file_types_input,
                   libraries_input, file_types, libraries, timestamp, attempts, copied>>

\* lines 199-203
MainTypes(inputs) ==
    /\ pc = "scanned"
    /\ \E toks \in inputs :
           LET r == SelectTypes(all_file_types, toks)
           IN /\ file_types_input' = toks
              /\ IF r.ok THEN file_types' = r.list /\ pc' = "typed" /\ UNCHANGED raised
                 ELSE Fail(r.err) /\ UNCHANGED file_types
    /\ UNCHANGED <<env, cfgFile, clock, runs, config, given, saved, outputs,
                   selected_directory, output_directory, all_file_types, all_libraries,
                   libraries_input, libraries, timestamp, attempts, copied>>

\* lines 208-217
MainLibs(inputs) ==
    /\ pc = "typed"
    /\ \E toks \in inputs :
           LET r == SelectLibs(all_libraries, toks)
           IN /\ libraries_input' = toks
              /\ IF r.ok THEN libraries' = r.list /\ pc' = "selected" /\ UNCHANGED raised
                 ELSE Fail(r.err) /\ UNCHANGED libraries
    /\ UNCHANGED <<env, cfgFile, clock, runs, config, given, saved, outputs,
                   selected_directory, output_directory, all_file_types, all_libraries,
                   file_types_input, file_types, timestamp, attempts, copied>>

\* lines 219-233: the timestamp, the two directories and the codemap file.
\* os.listdir of a directory that does not exist raises with the file
\* created and empty; a get_library_version that raises leaves the file
\* with what was written before it
MainCodemap ==
    /\ pc = "selected"
    /\ timestamp' = clock
    /\ LET lines == write_codemap(selected_directory, TreeAt(selected_directory), <<>>, 0,
                                  config.ignored_extensions, config.ignored_folders)
           libs == LibraryLines(libEnv, libraries)
           file == join(join(top_level_dir, <<"codebase-", ToString(clock)>>),
                        basename(selected_directory) \o <<"-codemap.txt">>)
       IN IF ~Exists(selected_directory)
          THEN /\ codemaps' = Put(codemaps, file, Codemap(<<>>, FALSE, <<>>))
               /\ Fail("FileNotFoundError")
          ELSE /\ codemaps' = Put(codemaps, file, Codemap(lines, TRUE, libs))
               /\ IF Len(libs) < Len(libraries) THEN Fail("LibraryError")
                  ELSE pc' = "mapped" /\ UNCHANGED raised
    /\ UNCHANGED <<env, cfgFile, clock, runs, config, given, saved, copies, reports,
                   selected_directory, output_directory, all_file_types, all_libraries,
                   file_types_input, libraries_input, file_types, libraries,
                   attempts, copied>>

\* line 235
MainCopy ==
    /\ pc = "mapped"
    /\ \E order \in WalkOrders(Walked(selected_directory, TreeAt(selected_directory),
                                      config.ignored_folders)) :
           LET r == copy_files(CopyArgs(TreeAt(selected_directory), codebase_dir,
                                        file_types, config.ignored_extensions,
                                        unreadable, unwritable, clock),
                               copies, order)
           IN /\ copies' = r.files
              /\ copied' = r.log
              /\ IF r.raised THEN Fail("OSError")
                 ELSE pc' = "copied" /\ UNCHANGED raised
    /\ UNCHANGED <<env, cfgFile, clock, runs, config, given, saved, codemaps, reports,
                   selected_directory, output_directory, all_file_types, all_libraries,
                   file_types_input, libraries_input, file_types, libraries,
                   timestamp, attempts>>

\* lines 237-243
MainReports ==
    /\ pc = "copied"
    /\ LET r == ReportSeq(libEnv, libraries_dir, timestamp,
                          [files |-> reports, attempts |-> 0, raised |-> FALSE],
                          libraries)
       IN /\ reports' = r.files
          /\ attempts' = r.attempts
          /\ IF r.raised THEN Fail("LibraryError")
             ELSE pc' = "reported" /\ UNCHANGED raised
    /\ UNCHANGED <<env, cfgFile, clock, runs, config, given, saved, codemaps, copies,
                   selected_directory, output_directory, all_file_types, all_libraries,
                   file_types_input, libraries_input, file_types, libraries,
                   timestamp, copied>>

\* a save of the configuration as loaded, without the directories of the run
MainSaveAsLoaded(faults) ==
    /\ pc = "reported"
    /\ config' = config
    /\ \E fault \in faults :
           /\ cfgFile' \in save_config(config', cfgFile, fault)
           /\ saved' = (fault = "none")
    /\ pc' = "done"
    /\ UNCHANGED <<env, clock, runs, given, locals, outputs, raised>>

\* lines 247-249
MainSave(faults) ==
    /\ pc = "reported"
    /\ config' = [config EXCEPT !.last_directory = JStr(selected_directory),
                                !.last_output_directory = JStr(output_directory)]
    /\ \E fault \in faults :
           /\ cfgFile' \in save_config(config', cfgFile, fault)
           /\ saved' = (fault = "none")
    /\ pc' = "done"
    /\ UNCHANGED <<env, clock, runs, given, locals, outputs, raised>>

\* main is started again
MainAgain ==
    /\ pc \in {"done", "failed"}
    /\ runs < MaxRuns
    /\ pc' = "idle"
    /\ raised' = NoError
    /\ saved' = FALSE
    /\ selected_directory' = <<>>
    /\ output_directory' = <<>>
    /\ all_file_types' = <<>>
    /\ all_libraries' = <<>>
    /\ file_types_input' = <<>>
    /\ libraries_input' = <<>>
    /\ file_types' = <<>>
    /\ libraries' = <<>>
    /\ timestamp' = 0
    /\ attempts' = 0
    /\ copied' = <<>>
    /\ UNCHANGED <<env, cfgFile, clock, runs, config, given, outputs>>

\* a second passes between two runs
Tick ==
    /\ pc \in {"done", "failed"}
    /\ clock < MaxClock
    /\ clock' = clock + 1
    /\ UNCHANGED <<env, cfgFile, pc, runs, config, given, saved, locals, outputs, raised>>

-----------------------------------------------------------------------------
(* The environments main is run in.                                        *)

APY == <<"a", ".", "py">>
OT == <<"o", ".", "t">>
S_A == <<<<"s">>, APY>>                        \* s/a.py
B_A == <<<<"b">>, APY>>                        \* b/a.py
B_O == <<<<"b">>, OT>>                         \* b/o.t
SA == <<<<"s", "-", "a", ".", "py">>>>         \* s-a.py

ImportOs == <<"import", " ", "os", ".", "x", LF>>
ImportRe == <<"import", " ", "re", CR, LF>>
FromRel == <<"from", " ", ".", "m", " ", "import", " ", "x", LF>>
Binary == <<"x", BAD>>
CrLf == <<"x", CR, LF, "x">>

\* the texts each file of the scanned directory may hold
TextsOf(path) ==
    CASE path = S_A -> {ImportOs, FromRel}
      [] path = B_A -> {ImportRe}
      [] path = B_O -> {Binary, CrLf}
      [] OTHER -> {ImportOs}

Candidates == {S_A, B_A, B_O, SA}

\* every tree of candidate files, each with one of its texts
Trees ==
    UNION {{{File(q, t[q]) : q \in ps} :
               t \in {u \in [ps -> UNION {TextsOf(q) : q \in ps}] :
                         \A q \in ps : u[q] \in TextsOf(q)}}
              : ps \in SUBSET Candidates}

PatB == <<"*", "/", "b", "*">>                 \* */b*
PatA == <<"*", "/", "a", ".", "py">>           \* */a.py
ExtT == <<".", "t">>
ExtPy == <<".", "py">>

MainRules ==
    {NoRules, Rules(<<PatB>>), Rules(<<ExtPy>>),
     Rules(<<<<"#", " ", "x">>, ExtT \o <<" ">>, <<>>, PatA>>)}

\* the library names a run may meet
LibNames ==
    {<<>>, <<"os">>, <<"re">>, <<"zz">>, <<"x">>, <<"all">>}
        \cup {<<ToString(n)>> : n \in (0 - MaxIndex - 1)..(MaxIndex + 1)}

\* pkg_resources takes no name that is empty or starts with a sign
NoRequirement(name) ==
    name = <<>> \/ name \in {<<ToString(0 - n)>> : n \in 1..(MaxIndex + 1)}

LibEnvOf(re) ==
    [name \in LibNames |->
        IF NoRequirement(name) THEN Facts("error", "missing", "none")
        ELSE IF name = <<"os">> THEN Facts("notfound", "plain", "origin")
        ELSE IF name = <<"re">> THEN re
        ELSE Facts("notfound", "missing", "none")]

LibEnvs ==
    {LibEnvOf(re) : re \in {Facts("found", "version", "origin"),
                            Facts("notfound", "version", "none"),
                            Facts("notfound", "error", "origin")}}

InitProgram ==
    /\ pc = "idle"
    /\ runs = 0
    /\ clock = 0
    /\ config = NoConfig
    /\ given = NoConfig
    /\ saved = FALSE
    /\ NoLocals
    /\ codemaps = {}
    /\ copies = {}
    /\ reports = {}
    /\ raised = NoError

\* what the operator types in Spec
FewTypes == {<<>>, <<Int_(1)>>, <<Int_(2), Int_(1)>>}
FewLibs == {<<>>, <<Name(<<"all">>)>>, <<Int_(1)>>, <<Name(<<"zz">>)>>}

Init ==
    /\ tree \in Trees
    /\ unreadable \in {{}} \cup {{q} : q \in Paths(tree) \cap {B_O, B_A}}
    /\ unwritable \in
           {{}} \cup {{Flatten(RelPath(q))} : q \in Paths(tree) \cap {B_O}}
    /\ unreadable = {} \/ unwritable = {}
    /\ cfgFile = Absent
    /\ rulesFile \in MainRules
    /\ libEnv \in LibEnvs
    /\ InitProgram

Next ==
    \/ MainLoad
    \/ MainPrompt({P}, {<<"o">>})
    \/ MainScan
    \/ MainTypes(FewTypes)
    \/ MainLibs(FewLibs)
    \/ MainCodemap
    \/ MainCopy
    \/ MainReports
    \/ MainSave(SaveFaults)

\* one run of main on any tree, with any ignore rules
Spec == Init /\ [][Next]_vars

-----------------------------------------------------------------------------
(* Properties of one run (Spec).                                           *)

Scanned == pc \in {"scanned", "typed", "selected", "mapped", "copied", "reported", "done"}
Mapped == pc \in {"mapped", "copied", "reported", "done"}
AfterCopy == pc \in {"copied", "reported", "done"}
\* copy_files ran: it returned, or an exception left it
CopyRan == AfterCopy \/ raised.at = "mapped"

\* a path of the scanned directory matches the ignore rules of the run: its
\* extension is ignored, or a folder pattern matches it or a directory above it
PatternHits(path) ==
    \E k \in 1..Len(path) :
        MatchesAny(PathStr(selected_directory, SubSeq(path, 1, k)), config.ignored_folders)
Ignored(path) ==
    \/ path \in Paths(tree) /\ JStr(ExtOf(path)) \in config.ignored_extensions
    \/ PatternHits(path)

KeptFiles == {f \in TreeAt(selected_directory) : ~Ignored(f.path)}

Max(S) == CHOOSE x \in S : \A y \in S : y <= x

RECURSIVE LinePath(_, _)
\* the path a line of the codemap stands for: its name under the path of the
\* nearest line above it that is indented one level less
LinePath(lines, i) ==
    LET text == lines[i].text
        name == IF EndsWith(text, <<SEP>>) THEN SubSeq(text, 1, Len(text) - 1) ELSE text
    IN IF lines[i].indent = 0 THEN <<name>>
       ELSE LinePath(lines, Max({j \in 1..(i - 1) : lines[j].indent = lines[i].indent - 1}))
                \o <<name>>

\* the paths the codemap of the run lists
Listed ==
    LET lines == TextAt(codemaps, codemap_file).lines
    IN {LinePath(lines, i) : i \in DOMAIN lines}

\* C1: every file or folder that matches the ignore rules is absent from the
\* extension set, the library set, the codemap and the copies: the
\* extensions and the libraries come from files that are not ignored, the
\* codemap lists no ignored path, and no ignored file is copied
C1_IgnoredAbsent ==
    /\ Scanned =>
          /\ Range(all_file_types) \subseteq {ExtOf(f.path) : f \in KeptFiles}
          /\ Range(all_libraries) \subseteq
                 UNION {ScanFile(f.text) : f \in {g \in KeptFiles : IsPy(g.path)}}
    /\ Mapped => \A q \in Listed : ~Ignored(q)
    /\ AfterCopy => \A i \in DOMAIN copied : ~Ignored(copied[i].src)

\* the files copy_files has to copy: walked, of a selected type, readable,
\* with a destination that can be written
Copyable ==
    {q \in Walked(selected_directory, TreeAt(selected_directory), config.ignored_folders) :
        /\ Eligible(q, file_types, config.ignored_extensions)
        /\ q \notin unreadable
        /\ Flatten(RelPath(q)) \notin unwritable}

\* C2: a failure while copying one file never leaves copy_files, and every
\* other eligible file of the walk is copied
C2_CopyNeverAborts ==
    /\ raised.at # "mapped"
    /\ CopyRan => \A q \in Copyable : \E i \in DOMAIN copied : copied[i].src = q

\* a copy that no later copy of the run overwrote
Last(i) == \A j \in DOMAIN copied : j > i => copied[j].dst # copied[i].dst

\* C3: the copy of a UTF-8 file is one timestamp line followed by the exact
\* original content; the copy of any other file is identical to the file
C3_CopyContent ==
    CopyRan =>
        \A i \in DOMAIN copied :
            Last(i) =>
                LET text == TextAt(tree, copied[i].src)
                    out == TextAt(copies, copied[i].dst)
                IN IF Decodable(text)
                   THEN /\ Len(out) = Len(text) + 3
                        /\ out[1] = "# file updated "
                        /\ out[3] = LF
                        /\ SubSeq(out, 4, Len(out)) = text
                   ELSE out = text

\* two relative paths differ only in the separator character: they are as
\* long as each other and, wherever they differ, one of them has the separator
DifferOnlyInSep(a, b) ==
    /\ Len(a) = Len(b)
    /\ \A i \in DOMAIN a : a[i] # b[i] => SEP \in {a[i], b[i]}

\* C4: two distinct files copied in one run, whose relative paths do not
\* differ only in the separator, get different destination names; when that
\* is so for every pair, the run leaves one copy per copied file
C4_FlattenInjective ==
    CopyRan =>
        /\ \A i, j \in DOMAIN copied :
               (i # j /\ ~DifferOnlyInSep(RelPath(copied[i].src), RelPath(copied[j].src)))
                   => copied[i].dst # copied[j].dst
        /\ (\A i, j \in DOMAIN copied :
               i # j => ~DifferOnlyInSep(RelPath(copied[i].src), RelPath(copied[j].src)))
               => Cardinality(copies) = Len(copied)

\* two files with the same name in two directories were both copied
C4_Witness ==
    /\ pc = "copied"
    /\ \E i, j \in DOMAIN copied :
           /\ copied[i].src = S_A
           /\ copied[j].src = B_A
           /\ copied[i].dst # copied[j].dst

\* C7: with 'all' typed and N libraries detected, no library ends the run,
\* the run makes N report attempts, and each attempt writes one report file
\* (the library has a module spec with an origin) or none
C7_ReportsNeverFail ==
    libraries_input = <<Name(<<"all">>)>> =>
        /\ raised.err # "LibraryError"
        /\ pc \in {"reported", "done"} =>
               /\ attempts = Len(all_libraries)
               /\ Cardinality(reports) =
                      Cardinality({l \in Range(all_libraries) : libEnv[l].spec = "origin"})

-----------------------------------------------------------------------------
(* The selection prompts (SpecSelect): one run of main on a directory with *)
(* one or two file types and libraries, with every input of up to two      *)
(* tokens.                                                                 *)

Indices == {Int_(n) : n \in (0 - MaxIndex)..MaxIndex}
TypeInputs ==
    {<<>>, <<Name(<<"x">>)>>} \cup {<<a>> : a \in Indices}
        \cup {<<a, b>> : a \in Indices, b \in Indices}
LibInputs ==
    TypeInputs \cup {<<Name(<<"all">>)>>, <<Name(<<"zz">>)>>, <<Name(<<"os">>), Int_(1)>>}

OneType == {File(S_A, ImportOs)}
TwoTypes == {File(S_A, ImportOs), File(B_A, ImportRe), File(B_O, CrLf)}

InitSelect ==
    /\ tree \in {OneType, TwoTypes}
    /\ unreadable = {}
    /\ unwritable = {}
    /\ cfgFile = Absent
    /\ rulesFile = NoRules
    /\ libEnv = LibEnvOf(Facts("found", "version", "origin"))
    /\ InitProgram

NextSelect ==
    \/ MainLoad
    \/ MainPrompt({P}, {<<"o">>})
    \/ MainScan
    \/ MainTypes(TypeInputs)
    \/ MainLibs(LibInputs)
    \/ MainCodemap
    \/ MainCopy
    \/ MainReports
    \/ MainSave({"none"})

SpecSelect == InitSelect /\ [][NextSelect]_vars

\* the file types were selected, or their selection raised
TypesFailed == pc = "failed" /\ raised.at = "scanned"
TypesOk ==
    \/ pc \in {"typed", "selected", "mapped", "copied", "reported", "done"}
    \/ pc = "failed" /\ raised.at \in {"typed", "selected", "mapped", "copied"}
\* the libraries were selected, or their selection raised
LibsFailed == pc = "failed" /\ raised.at = "typed"
LibsOk ==
    \/ pc \in {"selected", "mapped", "copied", "reported", "done"}
    \/ pc = "failed" /\ raised.at \in {"selected", "mapped", "copied"}

AllInt(toks) == toks # <<>> /\ \A i \in DOMAIN toks : toks[i].int

InRange(list, toks) == \A i \in DOMAIN toks : toks[i].n \in 1..Len(list)

\* the entries at the 1-based positions typed
AtPositions(list, toks, out) ==
    /\ Len(out) = Len(toks)
    /\ \A i \in DOMAIN toks : out[i] = list[toks[i].n]

\* C10: an input of indices that all lie in 1..N selects the entries at those
\* 1-based positions; an input with an index outside 1..N, 0 and negative
\* numbers included, selects nothing and ends the run with a fault; empty
\* input selects all file types and no libraries
C10_OutOfRangeRaises ==
    /\ ((TypesOk \/ TypesFailed) /\ AllInt(file_types_input)) =>
           IF InRange(all_file_types, file_types_input)
           THEN TypesOk /\ AtPositions(all_file_types, file_types_input, file_types)
           ELSE TypesFailed
    /\ ((LibsOk \/ LibsFailed) /\ AllInt(libraries_input) /\ DigitFirst(libraries_input)) =>
           IF InRange(all_libraries, libraries_input)
           THEN LibsOk /\ AtPositions(all_libraries, libraries_input, libraries)
           ELSE LibsFailed
    /\ (TypesOk /\ file_types_input = <<>>) => file_types = all_file_types
    /\ (LibsOk /\ libraries_input = <<>>) => libraries = <<>>

-----------------------------------------------------------------------------
(* Several runs of main (SpecRuns) on one directory, the clock advancing   *)
(* or not between two runs.                                                *)

InitRuns ==
    /\ tree = OneType
    /\ unreadable = {}
    /\ unwritable = {}
    /\ cfgFile = Absent
    /\ rulesFile \in {NoRules, Rules(<<ExtT>>)}
    /\ libEnv = LibEnvOf(Facts("found", "version", "origin"))
    /\ InitProgram

NextRuns ==
    \/ MainLoad
    \/ MainPrompt({P, Q, <<>>}, {<<"o">>, <<>>})
    \/ MainScan
    \/ MainTypes({<<>>})
    \/ MainLibs({<<>>, <<Name(<<"all">>)>>})
    \/ MainCodemap
    \/ MainCopy
    \/ MainReports
    \/ MainSave(SaveFaults)
    \/ MainAgain
    \/ Tick

SpecRuns == InitRuns /\ [][NextRuns]_vars

\* C8: the codemap, the copies and the library reports a run left are never
\* overwritten, modified or deleted by a later run: every written file stays
\* as it is
C8_ArtifactsKept ==
    [][/\ codemaps \subseteq codemaps'
       /\ copies \subseteq copies'
       /\ reports \subseteq reports']_vars

\* the steps of a run, in order
Sequence ==
    {<<"idle", "loaded">>, <<"loaded", "prompted">>, <<"prompted", "scanned">>,
     <<"scanned", "typed">>, <<"typed", "selected">>, <<"selected", "mapped">>,
     <<"mapped", "copied">>, <<"copied", "reported">>, <<"reported", "done">>}

\* C9: a run is one linear sequence of steps, ended early only by a failure;
\* config.json changes only in the last step, after the reports; a save that
\* wrote the file stored the two directories of the run; a step that fails
\* leaves config.json as it was
C9_ConfigSavedLast ==
    [][/\ pc' # pc =>
              \/ <<pc, pc'>> \in Sequence
              \/ pc' = "failed" /\ pc \notin {"done", "failed"}
              \/ pc' = "idle" /\ pc \in {"done", "failed"}
       /\ cfgFile' # cfgFile => pc = "reported" /\ pc' = "done"
       /\ (pc = "reported" /\ pc' = "done" /\ saved') =>
              /\ cfgFile'.kind = "json"
              /\ cfgFile'.val.f.last_directory = JStr(selected_directory)
              /\ cfgFile'.val.f.last_output_directory = JStr(output_directory)
       /\ pc' = "failed" => cfgFile' = cfgFile]_vars

\* a second run saved the directory q after a first run had saved p
C9_Witness ==
    /\ runs = 2
    /\ pc = "done"
    /\ saved
    /\ selected_directory = Q
    /\ cfgFile.kind = "json"
    /\ cfgFile.val.f.last_directory = JStr(Q)
    /\ \E f \in codemaps : StartsWith(f.path, <<"o", SEP, "p", SEP>>)

-----------------------------------------------------------------------------
(* save_config and load_config called in turn (SpecConfig): a caller saves *)
(* a configuration, loads it, saves what it loaded and loads again; or it  *)
(* loads whatever config.json holds.                                       *)

GivenConfigs ==
    {Config(ld, JMissing, e, f) :
        ld \in {JMissing, JStr(P)},
        e \in SUBSET {JStr(ExtT), JStr(ExtPy)},
        f \in SUBSET {JStr(PatB)}}

ConfigFiles ==
    {Absent, Empty, Malformed,
     Json(JObj(JMissing, JMissing, JMissing, JMissing)),
     Json(JObj(JStr(P), JStr(<<"o">>), JList(<<JStr(ExtT), JStr(ExtT)>>), JList(<<JStr(PatB)>>))),
     Json(JObj(JMissing, JMissing, JStr(ExtT), JList(<<>>))),
     Json(JObj(JMissing, JMissing, JList(<<JNum(1)>>), JMissing)),
     Json(JObj(JMissing, JMissing, JNull, JList(<<>>))),
     Json(JObj(JMissing, JMissing, JList(<<JList(<<>>)>>), JList(<<>>))),
     Json(JList(<<>>)),
     Json(JNull),
     Json(JStr(ExtT))}

InitConfig ==
    /\ tree = {}
    /\ unreadable = {}
    /\ unwritable = {}
    /\ libEnv = LibEnvOf(Facts("found", "version", "origin"))
    /\ cfgFile \in ConfigFiles
    /\ rulesFile \in MainRules
    /\ pc = "start"
    /\ runs = 0
    /\ clock = 0
    /\ config = NoConfig
    /\ given = NoConfig
    /\ saved = FALSE
    /\ NoLocals
    /\ codemaps = {}
    /\ copies = {}
    /\ reports = {}
    /\ raised = NoError

\* load_config() is called: first of all, or after a save
CallLoad ==
    /\ pc \in {"start", "saved1", "saved2"}
    /\ LET r == load_config(cfgFile, rulesFile)
       IN IF r.ok
          THEN /\ config' = r.config
               /\ pc' = CASE pc = "start" -> "loaded0"
                          [] pc = "saved1" -> "loaded1"
                          [] OTHER -> "loaded2"
               /\ UNCHANGED raised
          ELSE Fail("TypeError") /\ UNCHANGED config
    /\ UNCHANGED <<env, cfgFile, clock, runs, given, saved, locals, outputs>>

\* save_config(c) is called: first with any configuration, then with the one
\* load_config returned
CallSave(faults) ==
    /\ pc \in {"start", "loaded1"}
    /\ \E c \in IF pc = "start" THEN GivenConfigs ELSE {config} :
       \E fault \in faults :
           /\ given' = c
           /\ cfgFile' \in save_config(c, cfgFile, fault)
           /\ saved' = (fault = "none")
    /\ pc' = IF pc = "start" THEN "saved1" ELSE "saved2"
    /\ UNCHANGED <<env, clock, runs, config, locals, outputs, raised>>

NextConfig == CallLoad \/ CallSave(SaveFaults)

SpecConfig == InitConfig /\ [][NextConfig]_vars

\* load_config() returned after the save_config(given) before it wrote the file
RoundTrip == pc \in {"loaded1", "loaded2"} /\ saved

\* C5 as claimed: after save_config(c) has written c, load_config() returns
\* the two ignored sets of c, and so after the second save and load
C5_RoundTripSameSets ==
    RoundTrip =>
        /\ config.ignored_extensions = given.ignored_extensions
        /\ config.ignored_folders = given.ignored_folders

\* C5 as amended: after save_config(c) has written c, load_config() returns
\* the ignored sets of c united with the patterns of the ignore-rules file,
\* whatever order the sets were written in; saving and loading that result
\* returns the same two sets
C5_RoundTripWithRules ==
    /\ RoundTrip =>
           /\ config.ignored_extensions =
                  given.ignored_extensions \cup RuleExtensions(rulesFile)
           /\ config.ignored_folders =
                  given.ignored_folders \cup RuleFolders(rulesFile)
           /\ config.last_directory = given.last_directory
    /\ (pc = "loaded2" /\ saved) =>
           /\ config.ignored_extensions = given.ignored_extensions
           /\ config.ignored_folders = given.ignored_folders

\* the second round trip returned two sets that hold saved and ignore-rules
\* patterns
C5_Witness ==
    /\ pc = "loaded2"
    /\ saved
    /\ RuleExtensions(rulesFile) = {JStr(ExtT)}
    /\ config.ignored_extensions = {JStr(ExtT), JStr(ExtPy)}
    /\ config.ignored_folders = {JStr(PatB), JStr(PatA)}

\* C6: load_config never fails and never writes: whatever config.json and
\* ignored_patterns.txt hold it returns, config.json is as before, and the
\* two sets are the values stored in config.json united with the extension
\* rules and the folder patterns of ignored_patterns.txt
C6_LoadNeverFails ==
    [][(pc = "start" /\ pc' # "saved1") =>
           /\ pc' = "loaded0"
           /\ cfgFile' = cfgFile
           /\ config'.ignored_extensions =
                  SetOf(Parsed(cfgFile).f.ignored_extensions)
                      \cup RuleExtensions(rulesFile)
           /\ config'.ignored_folders =
                  SetOf(Parsed(cfgFile).f.ignored_folders)
                      \cup RuleFolders(rulesFile)]_vars

=============================================================================
